---------------------------- MODULE Spec2Model ----------------------------
(***************************************************************************)
(* A model of the image viewer widget of packages/imageviewer/src/widget.ts *)
(* (class ImageViewer): its five numeric properties and the style strings   *)
(* computed from them, the rendering of the document content as a data URI, *)
(* the title that follows the context's path, and the continuation that     *)
(* runs once the document context is ready and resolves the ready promise.  *)
(*                                                                         *)
(* JavaScript runs every handler to completion on one thread, so each       *)
(* setter, message handler, signal slot and promise continuation is one     *)
(* atomic action.  Numbers are modelled as integers; strings are TLC        *)
(* strings built with \o and ToString, as the template literals build them. *)
(***************************************************************************)
EXTENDS Integers, Sequences, FiniteSets, TLC

VARIABLES
    scale,              \* ImageViewer._scale
    rotation,           \* ImageViewer._rotation
    horizontalflip,     \* ImageViewer._horizontalflip
    verticalflip,       \* ImageViewer._verticalflip
    colorinversion,     \* ImageViewer._colorinversion
    transform,          \* style.transform of the inner div ("" while unset)
    filter,             \* style.filter of the inner div ("" while unset)
    src,                \* the src attribute of the img element ("" while unset)
    title,              \* this.title.label, a sequence of characters
    ready,              \* state of this._ready.promise: "pending" or "resolved"
    isDisposed,         \* Widget.isDisposed
    isReady,            \* context.isReady
    contPc,             \* the context.ready.then continuation: waiting, queued, done,
                        \* or dropped (context.ready rejected)
    contLog,            \* the calls the continuation has made, in order
    contentChangedConnected, \* context.model.contentChanged connected to update
    fileChangedConnected,    \* context.fileChanged connected to update
    updatePending,      \* an update-request message is posted and not yet handled
    contentsModel,      \* context.contentsModel (present = FALSE: null)
    content,            \* context.model.toString()
    localPath,          \* context.localPath, a sequence of characters
    last                \* the step taken last: the handler that ran ("host" for a
                        \* step of the host or the context), its argument, and
                        \* whether it called updateStyle / _render

fields == <<scale, rotation, horizontalflip, verticalflip, colorinversion>>
style  == <<transform, filter>>
widget == <<src, title, ready, isDisposed>>
wiring == <<contPc, contLog, contentChangedConnected, fileChangedConnected, updatePending>>
context == <<isReady, contentsModel, content, localPath>>
vars == <<fields, style, widget, wiring, context, last>>

---------------------------------------------------------------------------
(* Bounds of the inputs.                                                   *)

MaxScale == 2
MaxTurns == 1

\* 360, the modulus of the rotation setter.
FullTurn == 360

ScaleInputs == 1..MaxScale
RotationInputs == {-10, 400} \cup {k * FullTurn : k \in -MaxTurns..MaxTurns}
FlipInputs == {-1, 1}
InversionInputs == {0, 1}

Absent == [present |-> FALSE, mimetype |-> "", format |-> ""]
ContentsModels ==
    { [present |-> TRUE, mimetype |-> "image/png", format |-> "base64"] }
Contents == {"AAAA", "<svg/>"}
Paths == { <<"a">>, <<"d", "/", "e", "/", "b">> }

Unset == ""

---------------------------------------------------------------------------
(* Pure functions.                                                         *)

\* The JavaScript remainder a % n for n > 0: truncated, with the sign of a.
\* (-360 % 360 is -0 in JavaScript; -0 === 0 and `${-0}` is "0", so it is 0.)
JsRemFloored(a, n) == a % n
JsRem(a, n) == IF a >= 0 THEN a % n ELSE -((-a) % n)

\* updateStyle's transformString, from the four fields it reads.
TransformStringRotateFirst(s, h, v, r) ==
    "translate(-50%,-50%) "
       \o "rotate(" \o ToString(r) \o "deg) "
       \o "scale(" \o ToString(s * h) \o "," \o ToString(s * v) \o ")"
TransformString(s, h, v, r) ==
    "translate(-50%,-50%) "
       \o "scale(" \o ToString(s * h) \o "," \o ToString(s * v) \o ") "
       \o "rotate(" \o ToString(r) \o "deg)"

\* updateStyle's filterString.
FilterString(c) == "invert(" \o ToString(c) \o ")"

\* _render's data URI.
DataUriFormatFirst(cm, text) ==
    "data:" \o cm.format \o ";" \o cm.mimetype \o "," \o text
DataUri(cm, text) ==
    "data:" \o cm.mimetype \o ";" \o cm.format \o "," \o text

\* _render: the img src afterwards, given the src before.
RenderedClearsWhenAbsent(cm, text, before) ==
    IF ~cm.present THEN Unset ELSE DataUri(cm, text)
Rendered(cm, text, before) ==
    IF ~cm.present THEN before ELSE DataUri(cm, text)

\* PathExt.basename: the final segment of a path.
RECURSIVE LastSlash(_, _)
LastSlash(p, i) ==
    IF i = 0 THEN 0 ELSE IF p[i] = "/" THEN i ELSE LastSlash(p, i - 1)
Basename(p) == SubSeq(p, LastSlash(p, Len(p)) + 1, Len(p))

\* _onTitleChanged: the label it stores.
TitleOf(p) == Basename(p)

Ran(op, arg, styled, rendered) ==
    [op |-> op, arg |-> arg, styled |-> styled, rendered |-> rendered]

---------------------------------------------------------------------------
(* The state after construction.                                           *)

InitSubscribedInConstructor ==
    /\ scale = 1
    /\ rotation = 0
    /\ horizontalflip = 1
    /\ verticalflip = 1
    /\ colorinversion = 0
    /\ transform = Unset
    /\ filter = Unset
    /\ src = Unset
    /\ localPath \in Paths
    /\ title = TitleOf(localPath)
    /\ ready = "pending"
    /\ isDisposed = FALSE
    /\ isReady = FALSE
    /\ contPc = "waiting"
    /\ contLog = <<>>
    /\ contentChangedConnected = TRUE
    /\ fileChangedConnected = TRUE
    /\ updatePending = FALSE
    /\ contentsModel = Absent
    /\ content \in Contents
    /\ last = Ran("constructor", 0, FALSE, FALSE)

Init ==
    /\ scale = 1
    /\ rotation = 0
    /\ horizontalflip = 1
    /\ verticalflip = 1
    /\ colorinversion = 0
    /\ transform = Unset
    /\ filter = Unset
    /\ src = Unset
    /\ localPath \in Paths
    /\ title = TitleOf(localPath)
    /\ ready = "pending"
    /\ isDisposed = FALSE
    /\ isReady = FALSE
    /\ contPc = "waiting"
    /\ contLog = <<>>
    /\ contentChangedConnected = FALSE
    /\ fileChangedConnected = FALSE
    /\ updatePending = FALSE
    /\ contentsModel = Absent
    /\ content \in Contents
    /\ last = Ran("constructor", 0, FALSE, FALSE)

---------------------------------------------------------------------------
(* The setters.  Each returns early when the argument equals the stored    *)
(* value, and otherwise stores and calls updateStyle.                       *)

\* updateStyle, reading the fields as they are after the assignment.
UpdateStyle ==
    /\ transform' = TransformString(scale', horizontalflip', verticalflip', rotation')
    /\ filter' = FilterString(colorinversion')

SetScale(value) ==
    /\ IF value = scale
         THEN /\ UNCHANGED <<fields, style>>
              /\ last' = Ran("scale", value, FALSE, FALSE)
         ELSE /\ scale' = value
              /\ UNCHANGED <<rotation, horizontalflip, verticalflip, colorinversion>>
              /\ UpdateStyle
              /\ last' = Ran("scale", value, TRUE, FALSE)
    /\ UNCHANGED <<widget, wiring, context>>

SetRotationNoNormalize(value) ==
    /\ IF value = rotation
         THEN /\ UNCHANGED <<fields, style>>
              /\ last' = Ran("rotation", value, FALSE, FALSE)
         ELSE /\ rotation' = value
              /\ UNCHANGED <<scale, horizontalflip, verticalflip, colorinversion>>
              /\ UpdateStyle
              /\ last' = Ran("rotation", value, TRUE, FALSE)
    /\ UNCHANGED <<widget, wiring, context>>

SetRotation(value) ==
    /\ IF value = rotation
         THEN /\ UNCHANGED <<fields, style>>
              /\ last' = Ran("rotation", value, FALSE, FALSE)
         ELSE /\ rotation' = JsRem(value, FullTurn)
              /\ UNCHANGED <<scale, horizontalflip, verticalflip, colorinversion>>
              /\ UpdateStyle
              /\ last' = Ran("rotation", value, TRUE, FALSE)
    /\ UNCHANGED <<widget, wiring, context>>

SetHorizontalFlip(value) ==
    /\ IF value = horizontalflip
         THEN /\ UNCHANGED <<fields, style>>
              /\ last' = Ran("horizontalflip", value, FALSE, FALSE)
         ELSE /\ horizontalflip' = value
              /\ UNCHANGED <<scale, rotation, verticalflip, colorinversion>>
              /\ UpdateStyle
              /\ last' = Ran("horizontalflip", value, TRUE, FALSE)
    /\ UNCHANGED <<widget, wiring, context>>

SetVerticalFlipWritesHorizontal(value) ==
    /\ IF value = verticalflip
         THEN /\ UNCHANGED <<fields, style>>
              /\ last' = Ran("verticalflip", value, FALSE, FALSE)
         ELSE /\ horizontalflip' = value
              /\ UNCHANGED <<scale, rotation, verticalflip, colorinversion>>
              /\ UpdateStyle
              /\ last' = Ran("verticalflip", value, TRUE, FALSE)
    /\ UNCHANGED <<widget, wiring, context>>

SetVerticalFlip(value) ==
    /\ IF value = verticalflip
         THEN /\ UNCHANGED <<fields, style>>
              /\ last' = Ran("verticalflip", value, FALSE, FALSE)
         ELSE /\ verticalflip' = value
              /\ UNCHANGED <<scale, rotation, horizontalflip, colorinversion>>
              /\ UpdateStyle
              /\ last' = Ran("verticalflip", value, TRUE, FALSE)
    /\ UNCHANGED <<widget, wiring, context>>

SetColorInversionAlwaysStyles(value) ==
    /\ colorinversion' = value
    /\ UNCHANGED <<scale, rotation, horizontalflip, verticalflip>>
    /\ UpdateStyle
    /\ last' = Ran("colorinversion", value, TRUE, FALSE)
    /\ UNCHANGED <<widget, wiring, context>>

SetColorInversion(value) ==
    /\ IF value = colorinversion
         THEN /\ UNCHANGED <<fields, style>>
              /\ last' = Ran("colorinversion", value, FALSE, FALSE)
         ELSE /\ colorinversion' = value
              /\ UNCHANGED <<scale, rotation, horizontalflip, verticalflip>>
              /\ UpdateStyle
              /\ last' = Ran("colorinversion", value, TRUE, FALSE)
    /\ UNCHANGED <<widget, wiring, context>>

---------------------------------------------------------------------------
(* Messages and signals delivered to the widget.                           *)

\* onUpdateRequest: ignored when disposed or before the context is ready,
\* otherwise _render.
OnUpdateRequestUnguarded ==
    /\ updatePending
    /\ updatePending' = FALSE
    /\ src' = Rendered(contentsModel, content, src)
    /\ last' = Ran("update", 0, FALSE, TRUE)
    /\ UNCHANGED <<fields, style, title, ready, isDisposed, context>>
    /\ UNCHANGED <<contPc, contLog, contentChangedConnected, fileChangedConnected>>

OnUpdateRequestIgnoresDisposed ==
    /\ updatePending
    /\ updatePending' = FALSE
    /\ IF ~isReady
         THEN /\ UNCHANGED src
              /\ last' = Ran("update", 0, FALSE, FALSE)
         ELSE /\ src' = Rendered(contentsModel, content, src)
              /\ last' = Ran("update", 0, FALSE, TRUE)
    /\ UNCHANGED <<fields, style, title, ready, isDisposed, context>>
    /\ UNCHANGED <<contPc, contLog, contentChangedConnected, fileChangedConnected>>

OnUpdateRequest ==
    /\ updatePending
    /\ updatePending' = FALSE
    /\ IF isDisposed \/ ~isReady
         THEN /\ UNCHANGED src
              /\ last' = Ran("update", 0, FALSE, FALSE)
         ELSE /\ src' = Rendered(contentsModel, content, src)
              /\ last' = Ran("update", 0, FALSE, TRUE)
    /\ UNCHANGED <<fields, style, title, ready, isDisposed, context>>
    /\ UNCHANGED <<contPc, contLog, contentChangedConnected, fileChangedConnected>>

\* onActivateRequest: focuses the root node, which is no state of the model.
OnActivateRequest ==
    /\ last' = Ran("activate", 0, FALSE, FALSE)
    /\ UNCHANGED <<fields, style, widget, wiring, context>>

\* context.pathChanged fires with the context's new path; the slot connected
\* in the constructor is _onTitleChanged.
PathChangedTitleKept(path) ==
    /\ path # localPath
    /\ localPath' = path
    /\ UNCHANGED title
    /\ last' = Ran("pathChanged", 0, FALSE, FALSE)
    /\ UNCHANGED <<fields, style, src, ready, isDisposed, wiring>>
    /\ UNCHANGED <<isReady, contentsModel, content>>

PathChanged(path) ==
    /\ path # localPath
    /\ localPath' = path
    /\ title' = TitleOf(localPath')
    /\ last' = Ran("pathChanged", 0, FALSE, FALSE)
    /\ UNCHANGED <<fields, style, src, ready, isDisposed, wiring>>
    /\ UNCHANGED <<isReady, contentsModel, content>>

\* The continuation passed to context.ready.then, run once after the
\* context's ready promise has resolved.
ReadyContinuationResolveFirst ==
    /\ contPc = "queued"
    /\ contPc' = "done"
    /\ IF isDisposed
         THEN /\ UNCHANGED <<src, ready, contLog>>
              /\ UNCHANGED <<contentChangedConnected, fileChangedConnected>>
              /\ last' = Ran("continuation", 0, FALSE, FALSE)
         ELSE /\ ready' = "resolved"
              /\ src' = Rendered(contentsModel, content, src)
              /\ contentChangedConnected' = TRUE
              /\ fileChangedConnected' = TRUE
              /\ contLog' = contLog \o <<"resolve", "render", "connect contentChanged",
                                         "connect fileChanged">>
              /\ last' = Ran("continuation", 0, FALSE, TRUE)
    /\ UNCHANGED <<fields, style, title, isDisposed, updatePending, context>>

ReadyContinuationNeverResolves ==
    /\ contPc = "queued"
    /\ contPc' = "done"
    /\ IF isDisposed
         THEN /\ UNCHANGED <<src, contLog>>
              /\ UNCHANGED <<contentChangedConnected, fileChangedConnected>>
              /\ last' = Ran("continuation", 0, FALSE, FALSE)
         ELSE /\ src' = Rendered(contentsModel, content, src)
              /\ contentChangedConnected' = TRUE
              /\ fileChangedConnected' = TRUE
              /\ contLog' = contLog \o <<"render", "connect contentChanged",
                                         "connect fileChanged">>
              /\ last' = Ran("continuation", 0, FALSE, TRUE)
    /\ UNCHANGED ready
    /\ UNCHANGED <<fields, style, title, isDisposed, updatePending, context>>

ReadyContinuationRejectsDisposed ==
    /\ contPc = "queued"
    /\ contPc' = "done"
    /\ IF isDisposed
         THEN /\ ready' = "rejected"
              /\ UNCHANGED <<src, contLog>>
              /\ UNCHANGED <<contentChangedConnected, fileChangedConnected>>
              /\ last' = Ran("continuation", 0, FALSE, FALSE)
         ELSE /\ src' = Rendered(contentsModel, content, src)
              /\ contentChangedConnected' = TRUE
              /\ fileChangedConnected' = TRUE
              /\ ready' = "resolved"
              /\ contLog' = contLog \o <<"render", "connect contentChanged",
                                         "connect fileChanged", "resolve">>
              /\ last' = Ran("continuation", 0, FALSE, TRUE)
    /\ UNCHANGED <<fields, style, title, isDisposed, updatePending, context>>

ReadyContinuationNoDisposedCheck ==
    /\ contPc = "queued"
    /\ contPc' = "done"
    /\ src' = Rendered(contentsModel, content, src)
    /\ contentChangedConnected' = TRUE
    /\ fileChangedConnected' = TRUE
    /\ ready' = "resolved"
    /\ contLog' = contLog \o <<"render", "connect contentChanged",
                               "connect fileChanged", "resolve">>
    /\ last' = Ran("continuation", 0, FALSE, TRUE)
    /\ UNCHANGED <<fields, style, title, isDisposed, updatePending, context>>

ReadyContinuation ==
    /\ contPc = "queued"
    /\ contPc' = "done"
    /\ IF isDisposed
         THEN /\ UNCHANGED <<src, ready, contLog>>
              /\ UNCHANGED <<contentChangedConnected, fileChangedConnected>>
              /\ last' = Ran("continuation", 0, FALSE, FALSE)
         ELSE /\ src' = Rendered(contentsModel, content, src)
              /\ contentChangedConnected' = TRUE
              /\ fileChangedConnected' = TRUE
              /\ ready' = "resolved"
              /\ contLog' = contLog \o <<"render", "connect contentChanged",
                                         "connect fileChanged", "resolve">>
              /\ last' = Ran("continuation", 0, FALSE, TRUE)
    /\ UNCHANGED <<fields, style, title, isDisposed, updatePending, context>>

---------------------------------------------------------------------------
(* The host and the document context.                                      *)

\* The context becomes ready: isReady turns true and its ready promise
\* resolves, which queues the continuation.
ContextReady ==
    /\ ~isReady
    /\ contPc = "waiting"
    /\ isReady' = TRUE
    /\ contPc' = "queued"
    /\ last' = Ran("host", 0, FALSE, FALSE)
    /\ UNCHANGED <<fields, style, widget, contLog, updatePending>>
    /\ UNCHANGED <<contentChangedConnected, fileChangedConnected>>
    /\ UNCHANGED <<contentsModel, content, localPath>>

\* The context never becomes ready: its ready promise rejects.  then() was
\* given no rejection handler, so the continuation is dropped and never runs.
ContextFailed ==
    /\ ~isReady
    /\ contPc = "waiting"
    /\ contPc' = "dropped"
    /\ last' = Ran("host", 0, FALSE, FALSE)
    /\ UNCHANGED <<fields, style, widget, contLog, updatePending>>
    /\ UNCHANGED <<contentChangedConnected, fileChangedConnected>>
    /\ UNCHANGED context

\* The document's text changes; model.contentChanged fires, and its slot,
\* once connected, is update, which posts an update-request.
ContentChanged(text) ==
    /\ text # content
    /\ content' = text
    /\ updatePending' = (updatePending \/ contentChangedConnected)
    /\ last' = Ran("host", 0, FALSE, FALSE)
    /\ UNCHANGED <<fields, style, widget, contPc, contLog>>
    /\ UNCHANGED <<contentChangedConnected, fileChangedConnected>>
    /\ UNCHANGED <<isReady, contentsModel, localPath>>

\* The file is loaded or saved: the context holds a new contents model (the
\* interface types it as nullable, so it may also be absent again) and
\* fileChanged fires; its slot, once connected, is update.
FileChanged(cm) ==
    /\ cm # contentsModel
    /\ contentsModel' = cm
    /\ updatePending' = (updatePending \/ fileChangedConnected)
    /\ last' = Ran("host", 0, FALSE, FALSE)
    /\ UNCHANGED <<fields, style, widget, contPc, contLog>>
    /\ UNCHANGED <<contentChangedConnected, fileChangedConnected>>
    /\ UNCHANGED <<isReady, content, localPath>>

\* The host calls update(), which posts an update-request.
Update ==
    /\ ~updatePending
    /\ updatePending' = TRUE
    /\ last' = Ran("host", 0, FALSE, FALSE)
    /\ UNCHANGED <<fields, style, widget, contPc, contLog, context>>
    /\ UNCHANGED <<contentChangedConnected, fileChangedConnected>>

\* The host disposes the widget.
Dispose ==
    /\ ~isDisposed
    /\ isDisposed' = TRUE
    /\ last' = Ran("host", 0, FALSE, FALSE)
    /\ UNCHANGED <<fields, style, src, title, ready, wiring, context>>

---------------------------------------------------------------------------

Next ==
    \/ \E value \in ScaleInputs : SetScale(value)
    \/ \E value \in RotationInputs : SetRotation(value)
    \/ \E value \in FlipInputs : SetHorizontalFlip(value)
    \/ \E value \in FlipInputs : SetVerticalFlip(value)
    \/ \E value \in InversionInputs : SetColorInversion(value)
    \/ OnUpdateRequest
    \/ OnActivateRequest
    \/ \E path \in Paths : PathChanged(path)
    \/ ReadyContinuation
    \/ ContextReady
    \/ ContextFailed
    \/ \E text \in Contents : ContentChanged(text)
    \/ \E cm \in ContentsModels \cup {Absent} : FileChanged(cm)
    \/ Update
    \/ Dispose

Spec == Init /\ [][Next]_vars

\* A continuation of a resolved promise is a queued microtask: the event
\* loop runs it.
FairSpec == Spec /\ WF_vars(ReadyContinuation)

---------------------------------------------------------------------------
(* Properties.                                                             *)

SetterOps == {"scale", "rotation", "horizontalflip", "verticalflip", "colorinversion"}

\* C1, as stated: after rotation = x, reading rotation yields x mod 360 in
\* the range 0..359 (400 gives 40, -10 gives 350).
RotationIsNonNegativeModulo ==
    last.op = "rotation" =>
        /\ rotation \in 0..(FullTurn - 1)
        /\ rotation = last.arg % FullTurn

\* C1, amended: after rotation = x, reading rotation yields the truncated
\* remainder of x by 360: it differs from x by a multiple of 360, its
\* absolute value is below 360, and it is zero or has the sign of x
\* (400 gives 40, -10 gives -10).
RotationIsTruncatedRemainder ==
    last.op = "rotation" =>
        /\ -FullTurn < rotation /\ rotation < FullTurn
        /\ \E q \in -(MaxTurns + 1)..(MaxTurns + 1) :
               last.arg = q * FullTurn + rotation
        /\ rotation > 0 => last.arg > 0
        /\ rotation < 0 => last.arg < 0

NegativeRotationStored ==
    last.op = "rotation" /\ last.arg = -10 /\ rotation = -10

\* C2: a step that is a setter call (last'.op names the setter, last'.arg
\* its argument) with the value the field already holds changes none of
\* the five fields and neither style string.
StoredValue(op) ==
    CASE op = "scale" -> scale
      [] op = "rotation" -> rotation
      [] op = "horizontalflip" -> horizontalflip
      [] op = "verticalflip" -> verticalflip
      [] OTHER -> colorinversion

EqualValueSetterIsNoOp ==
    [][ (last'.op \in SetterOps /\ last'.arg = StoredValue(last'.op))
        => UNCHANGED <<fields, style>> ]_vars

EqualValueSetterRan ==
    /\ last.op \in SetterOps
    /\ last.arg = StoredValue(last.op)
    /\ ~last.styled
    /\ transform # Unset

\* C3: a rotation setter call whose argument, reduced modulo 360, equals the
\* stored rotation is a no-op: nothing is stored, updateStyle is not called
\* and the style strings stay as they were.
NormalizedEqualRotationIsNoOp ==
    [][ \A v \in RotationInputs :
          (SetRotation(v) /\ JsRem(v, FullTurn) = rotation)
          => (UNCHANGED <<fields, style>> /\ ~last'.styled) ]_vars

\* C4: the continuation resolves the ready promise at most once, and
\* whenever the promise is resolved the context is ready and the
\* continuation's call of _render came before its call of resolve.
ReadyResolvedOnceAfterRender ==
    /\ Cardinality({i \in DOMAIN contLog : contLog[i] = "resolve"}) <= 1
    /\ ready = "resolved" =>
          /\ isReady
          /\ \E i, j \in DOMAIN contLog :
                i < j /\ contLog[i] = "render" /\ contLog[j] = "resolve"

ReadyResolvedThenDisposed ==
    ready = "resolved" /\ isDisposed /\ last.op = "update"

\* C5: whenever the ready promise is resolved, the img src has been set.
ReadyImpliesSrcSet ==
    ready = "resolved" => src # Unset

\* C6: an update request handled before the context is ready calls no
\* _render and leaves the img src as it was.
UpdateBeforeReadyIsNoOp ==
    [][ (OnUpdateRequest /\ ~isReady) => (src' = src /\ ~last'.rendered) ]_vars

UpdateHandledBeforeReady ==
    /\ last.op = "update"
    /\ ~isReady
    /\ contentsModel.present
    /\ src = Unset

\* C7: after a _render with a contents model present, the img src is
\* "data:" + mimetype + ";" + format + "," + content, whatever the three are.
RenderSetsDataUri ==
    (last.rendered /\ contentsModel.present) =>
        src = "data:" \o contentsModel.mimetype \o ";" \o contentsModel.format
                 \o "," \o content

RenderedPngExample ==
    /\ last.rendered
    /\ contentsModel.mimetype = "image/png"
    /\ contentsModel.format = "base64"
    /\ content = "AAAA"
    /\ src = "data:image/png;base64,AAAA"

\* C8: after updateStyle the transform is translate(-50%,-50%), then
\* scale(scale * horizontalflip, scale * verticalflip), then
\* rotate(rotation deg); scale 2 with horizontalflip -1 gives scale(-2,2).
TransformComposedInOrder ==
    /\ last.styled =>
          transform = "translate(-50%,-50%) "
                         \o "scale(" \o ToString(scale * horizontalflip) \o ","
                         \o ToString(scale * verticalflip) \o ") "
                         \o "rotate(" \o ToString(rotation) \o "deg)"
    /\ (last.styled /\ scale = 2 /\ horizontalflip = -1 /\ verticalflip = 1) =>
          transform = "translate(-50%,-50%) scale(-2,2) rotate("
                         \o ToString(rotation) \o "deg)"

FlippedAndScaled ==
    /\ last.styled
    /\ last.op = "scale"
    /\ scale = 2 /\ horizontalflip = -1 /\ verticalflip = 1 /\ rotation = 0
    /\ transform = "translate(-50%,-50%) scale(-2,2) rotate(0deg)"

\* C9: the title is the final segment of the context's local path: the part
\* after its last "/" (the whole path when it holds none), from construction
\* on and after every path change, ready or not, rendered or not.
TitleIsBasename ==
    /\ \A i \in DOMAIN title : title[i] # "/"
    /\ \E k \in 0..Len(localPath) :
          /\ k > 0 => localPath[k] = "/"
          /\ title = SubSeq(localPath, k + 1, Len(localPath))

TitleFollowedPathBeforeReady ==
    /\ last.op = "pathChanged"
    /\ ~isReady
    /\ src = Unset
    /\ localPath = <<"d", "/", "e", "/", "b">>
    /\ title = <<"b">>

\* C10: the stored rotation always has an absolute value below 360.
RotationStoredReduced ==
    -FullTurn < rotation /\ rotation < FullTurn

FullTurnsReduced ==
    /\ last.op = "rotation"
    /\ last.arg = 400
    /\ last.styled
    /\ rotation = 40

\* C11: the ready promise is never rejected, and it is pending for as long
\* as the context has not signalled readiness (so it stays pending forever
\* when the context never does).
ReadyNeverRejected ==
    /\ ready \in {"pending", "resolved"}
    /\ ~isReady => ready = "pending"

ContextNeverReady ==
    /\ contPc = "dropped"
    /\ ~isReady
    /\ isDisposed
    /\ ready = "pending"

\* C12: a continuation that runs after the widget was disposed calls no
\* _render, leaves the img src as it was, connects neither signal and does
\* not resolve the ready promise.
DisposedContinuationTouchesNothing ==
    [][ (ReadyContinuation /\ isDisposed)
        => /\ ~last'.rendered
           /\ UNCHANGED <<src, ready, contLog>>
           /\ UNCHANGED <<contentChangedConnected, fileChangedConnected>> ]_vars

ContinuationRanAfterDispose ==
    /\ last.op = "continuation"
    /\ isDisposed
    /\ contentsModel.present
    /\ src = Unset
    /\ ready = "pending"
    /\ ~contentChangedConnected /\ ~fileChangedConnected

\* C13: an update request handled after disposal leaves the img src as it
\* was; one handled while the widget is not disposed and the context is
\* ready calls _render, so that with a contents model present the img src
\* is the data URI of the context's content at that time.
UpdateIgnoredWhenDisposedElseRenders ==
    [][ OnUpdateRequest
        => /\ isDisposed => (src' = src /\ ~last'.rendered)
           /\ (~isDisposed /\ isReady) => last'.rendered
           /\ (~isDisposed /\ isReady /\ contentsModel.present) =>
                 src' = "data:" \o contentsModel.mimetype \o ";"
                           \o contentsModel.format \o "," \o content ]_vars

UpdateIgnoredAfterDispose ==
    /\ last.op = "update"
    /\ ~last.rendered
    /\ isDisposed /\ isReady
    /\ contentsModel.present
    /\ src # Unset
    /\ src # DataUri(contentsModel, content)

\* C14: a _render that runs while the contents model is absent leaves the
\* img src as it was, unset or the last data URI, in the continuation
\* (first render) and in an update request (re-render) alike.
RenderWithoutContentsModelIsNoOp ==
    [][ (last'.rendered /\ ~contentsModel.present) => src' = src ]_vars

RerenderedWithoutContentsModel ==
    /\ last.op = "update"
    /\ last.rendered
    /\ ~contentsModel.present
    /\ src # Unset

\* C15: both signals are connected only by the continuation, which calls
\* _render, connects contentChanged, connects fileChanged and resolves, in
\* that order and once each; a change of the content or of the contents
\* model notified before the continuation has run posts no update request
\* and renders nothing.
ContinuationCalls ==
    <<"render", "connect contentChanged", "connect fileChanged", "resolve">>

SubscribedOnlyInContinuation ==
    /\ contLog \in {<<>>, ContinuationCalls}
    /\ (contentChangedConnected \/ fileChangedConnected) =>
          (contPc = "done" /\ contLog = ContinuationCalls)

SubscribesInContinuationInOrder ==
    [][ /\ SubscribedOnlyInContinuation
        /\ SubscribedOnlyInContinuation'
        /\ ( \/ contentChangedConnected' # contentChangedConnected
             \/ fileChangedConnected' # fileChangedConnected )
           => last'.op = "continuation"
        /\ ((content' # content \/ contentsModel' # contentsModel) /\ contPc # "done")
           => (updatePending' = updatePending /\ src' = src /\ ~last'.rendered) ]_vars

NotifiedBeforeContinuation ==
    /\ contPc = "queued"
    /\ contentsModel.present
    /\ ~updatePending
    /\ src = Unset
    /\ ~contentChangedConnected /\ ~fileChangedConnected

\* C16: a setter call leaves the four other fields, the img src, the title
\* and the ready promise as they were; the continuation (the first render),
\* update requests, activate requests and path changes leave the five
\* fields and both style strings as they were; a field changes only in a
\* call of its own setter and the img src only in a step that calls _render.
OthersUnchanged(op) ==
    CASE op = "scale" ->
           UNCHANGED <<rotation, horizontalflip, verticalflip, colorinversion>>
      [] op = "rotation" ->
           UNCHANGED <<scale, horizontalflip, verticalflip, colorinversion>>
      [] op = "horizontalflip" ->
           UNCHANGED <<scale, rotation, verticalflip, colorinversion>>
      [] op = "verticalflip" ->
           UNCHANGED <<scale, rotation, horizontalflip, colorinversion>>
      [] OTHER ->
           UNCHANGED <<scale, rotation, horizontalflip, verticalflip>>

FieldsAndSrcFramed ==
    [][ /\ last'.op \in SetterOps =>
              (OthersUnchanged(last'.op) /\ UNCHANGED <<src, title, ready>>)
        /\ last'.op \in {"continuation", "update", "activate", "pathChanged"} =>
              UNCHANGED <<fields, style>>
        /\ scale' # scale => last'.op = "scale"
        /\ rotation' # rotation => last'.op = "rotation"
        /\ horizontalflip' # horizontalflip => last'.op = "horizontalflip"
        /\ verticalflip' # verticalflip => last'.op = "verticalflip"
        /\ colorinversion' # colorinversion => last'.op = "colorinversion"
        /\ src' # src => last'.rendered ]_vars

VerticalFlipSetAfterRender ==
    /\ last.op = "verticalflip"
    /\ last.styled
    /\ verticalflip = -1 /\ horizontalflip = 1
    /\ scale = 2 /\ rotation = 40 /\ colorinversion = 1
    /\ src # Unset
    /\ ready = "resolved"

\* C17: the style strings are written only by setter calls that change a
\* stored value (so they are unset until the first such call), and whenever
\* they are set they are the strings computed from the five fields.
StyleWrittenOnlyByValueChange ==
    [][ /\ style' # style => fields' # fields
        /\ transform' # Unset =>
              /\ transform' = "translate(-50%,-50%) "
                     \o "scale(" \o ToString(scale' * horizontalflip') \o ","
                     \o ToString(scale' * verticalflip') \o ") "
                     \o "rotate(" \o ToString(rotation') \o "deg)"
              /\ filter' = "invert(" \o ToString(colorinversion') \o ")" ]_vars

\* C18: once the context has signalled readiness and the continuation is
\* queued, the ready promise is eventually resolved unless the widget is
\* disposed first; and once resolved it stays resolved, also after disposal.
EventuallyResolvedAndStaysResolved ==
    /\ (contPc = "queued") ~> (ready = "resolved" \/ isDisposed)
    /\ [][ready = "resolved" => ready' = "resolved"]_vars

DisposedAfterResolved ==
    /\ ready = "resolved"
    /\ isDisposed
    /\ contPc = "done"
    /\ last.op = "host"

===========================================================================
